---------------------------- MODULE Spec2Model ----------------------------
(***************************************************************************)
(* Batch Image Rotator (src/batch_image_rotator.py).                       *)
(*                                                                         *)
(* Two threads share the BatchImageRotator object: the Tk UI thread, which *)
(* runs add_files, clear_batch, process_batch, the angle control and the   *)
(* callbacks queued with root.after, and the batch thread started by       *)
(* process_batch, which runs _process_batch_thread.  The batch thread      *)
(* iterates over the live list self.current_batch.                         *)
(***************************************************************************)
EXTENDS Integers, Sequences, FiniteSets, TLC

(***************************************************************************)
(* Environment: the files the user can offer and the directories the       *)
(* directory dialog can return.  A path is kept as its parts, so that      *)
(* Path.stem, Path.suffix and os.path.basename are computed from it.       *)
(***************************************************************************)
FA == [dir |-> "in", stem |-> "a", suffix |-> ".jpg"]
FB == [dir |-> "in", stem |-> "b", suffix |-> ".PNG"]
FT == [dir |-> "in", stem |-> "t", suffix |-> ".jpg"]
FN == [dir |-> "in", stem |-> "n", suffix |-> ".txt"]

Paths == {FA, FB, FT}

\* More paths, offered when the batch is edited and no run is looked at: a
\* path at which there is no file, and a text file named as an image.
FM == [dir |-> "in", stem |-> "m", suffix |-> ".jpg"]
FX == [dir |-> "in", stem |-> "x", suffix |-> ".png"]

EditPaths == Paths \cup {FN, FM, FX}

\* What is on disk at a path: a sound image, an image whose header reads but
\* whose pixel data is cut short, a text file.
FileKind(p) ==
  CASE p = FA -> "image"
    [] p = FB -> "image"
    [] p = FT -> "truncated"
    [] p = FN -> "text"
    [] p = FX -> "text"
    [] OTHER  -> "missing"

\* os.path.isfile(file_path)
isfile(p) == FileKind(p) # "missing"

\* str.lower() on the suffixes that occur
lower(s) ==
  CASE s = ".PNG" -> ".png"
    [] s = ".JPG" -> ".jpg"
    [] OTHER      -> s

valid_extensions == {".jpg", ".jpeg", ".png", ".bmp", ".tiff", ".tif", ".webp"}

\* Image.open(file_path) reads the header only; it raises on a file that is
\* no image.
OpenOk(p) == FileKind(p) \in {"image", "truncated"}

\* Decoding the pixel data (np.array(image), or the load inside save) raises
\* on a truncated file.
LoadOk(p) == FileKind(p) = "image"

\* The container format of the data in the file.  The name of a file does not
\* decide it: b.PNG holds JPEG data.
Container(p) ==
  CASE p = FA -> "JPEG"
    [] p = FB -> "JPEG"
    [] p = FT -> "JPEG"
    [] OTHER  -> "None"

\* img.format of the opened file, read from the header of the file
ImageFormat(p) == Container(p)

\* PIL's Image.registered_extensions(), on the extensions add_files lets in
ExtensionFormat(ext) ==
  CASE ext \in {".jpg", ".jpeg"} -> "JPEG"
    [] ext = ".png"              -> "PNG"
    [] ext = ".bmp"              -> "BMP"
    [] ext \in {".tif", ".tiff"} -> "TIFF"
    [] ext = ".webp"             -> "WEBP"
    [] OTHER                     -> "None"

\* os.path.basename(file_path)
basename(p) == p.stem \o p.suffix

\* filedialog.askdirectory: "" when the dialog is cancelled, else the chosen
\* directory, which need not exist or be writable.
DirCancelled == ""
DirGood      == "/out"
DirBad       == "/gone"
Directories  == {DirCancelled, DirGood, DirBad}

\* rotated_img.save(output_path) can create the file
DirWritable(d) == d = DirGood

\* The text of the Tcl variable behind rotation_angle: the Entry widget lets
\* the user type anything into it.
AngleTexts == {"0.0", "90.0", "abc"}

\* DoubleVar.get(): getdouble of the text, which raises on text that is no
\* number.
GetDoubleOk(t) == t \in {"0.0", "90.0"}
GetDouble(t) == CASE t = "0.0" -> 0 [] t = "90.0" -> 90 [] OTHER -> 0

\* f"{angle:.1f}"
Format1f(a) == CASE a = 0 -> "0.0" [] a = 90 -> "90.0" [] OTHER -> "?"

\* Longest list of files one add_files call is given.
MaxFiles == 2

\* Most user edits (files added, batch cleared, angle changed) handled while
\* one run is on.
MaxEdits == 1

VARIABLES
  current_batch,     \* self.current_batch: the paths of its tuples, in order
  rotation_angle,    \* text of the Tk variable self.rotation_angle
  processing,        \* self.processing
  process_button,    \* state of self.process_button
  progress_maximum,  \* self.progress_bar maximum
  progress_value,    \* self.progress_bar value
  after_queue,       \* callbacks queued with root.after(0, ...), not yet run
  ui_pc,             \* position of the UI thread: "idle" in the event loop,
                     \* "add" inside add_files
  add_rest,          \* add_files: the paths of "for file_path in files" to come
  pc,                \* position of the batch thread ("none": no thread)
  output_dir,        \* the batch thread's argument
  angle,             \* local of _process_batch_thread
  processed_count,   \* local of _process_batch_thread
  i,                 \* position of the loop's list iterator
  file_path,         \* local of _process_batch_thread: the item in hand
  batch_len,         \* _process_batch_thread: len(self.current_batch) as
                     \* evaluated for the call of line 341
  posted,            \* history: callbacks the current run has queued
  results,           \* history: outcome of each item the current run handled
  run_batch,         \* history: current_batch when the current run started
  run_mutated,       \* history: current_batch changed while the run read it
  run_edits,         \* history: user edits handled while the run was on
  threads,           \* batch threads started and not ended
  tk_direct,         \* history: Tk calls the batch thread of the run made itself
  offered,           \* history: the files of the last add_files call, kept
                     \* when the editing of the batch is looked at on its own
  run_angle,         \* history: text of rotation_angle when the run was started
  no_images_warned,  \* history: the "No Images" warning box has been shown,
                     \* and the batch has been empty since
  rot_pc,            \* position of a caller of rotate_equirectangular
  rot_image,         \* rotate_equirectangular: the argument image
  rot_angle,         \* rotate_equirectangular: the argument angle_degrees
  rot_shift,         \* rotate_equirectangular: the local shift_pixels
  rot_out,           \* what rotate_equirectangular(image, angle) returned
  rot_back,          \* what rotating rot_out by -angle returned
  rot_next           \* what rotate_equirectangular(image, angle + 360) returned

batch_vars == <<current_batch, rotation_angle, processing, process_button,
                progress_maximum, progress_value, after_queue,
                ui_pc, add_rest,
                pc, output_dir, angle, processed_count, i, file_path,
                batch_len,
                posted, results, run_batch, run_mutated, run_edits,
                run_angle, no_images_warned,
                threads, tk_direct, offered>>

rot_vars == <<rot_pc, rot_image, rot_angle, rot_shift, rot_out, rot_back,
              rot_next>>

vars == <<batch_vars, rot_vars>>

ui_vars     == <<process_button, progress_value, after_queue>>
add_vars    == <<ui_pc, add_rest>>
thread_vars == <<pc, output_dir, angle, processed_count, i, file_path,
                 batch_len>>
hist_vars   == <<posted, results, run_batch, run_mutated, run_edits,
                 run_angle, no_images_warned, threads, tk_direct,
                 offered>>

NoPath == [dir |-> "", stem |-> "", suffix |-> ""]

InitBatch ==
  /\ current_batch = <<>>
  /\ rotation_angle = "0.0"
  /\ processing = FALSE
  /\ process_button = "normal"
  /\ progress_maximum = 100
  /\ progress_value = 0
  /\ after_queue = <<>>
  /\ ui_pc = "idle"
  /\ add_rest = <<>>
  /\ pc = "none"
  /\ output_dir = ""
  /\ angle = 0
  /\ processed_count = 0
  /\ i = 0
  /\ file_path = NoPath
  /\ batch_len = 0
  /\ posted = <<>>
  /\ results = <<>>
  /\ run_batch = <<>>
  /\ run_mutated = FALSE
  /\ run_edits = 0
  /\ run_angle = ""
  /\ no_images_warned = FALSE
  /\ threads = 0
  /\ tk_direct = <<>>
  /\ offered = <<>>

\* No image: the value of a variable that holds no image yet.
NoImage == [format |-> "None", arr |-> [ndim |-> 0, data |-> <<>>]]

\* The application: rotate_equirectangular is not being called on its own.
InitNoCall ==
  /\ rot_pc = "none"
  /\ rot_image = NoImage
  /\ rot_angle = 0
  /\ rot_shift = <<>>
  /\ rot_out = NoImage
  /\ rot_back = NoImage
  /\ rot_next = NoImage

Init == InitBatch /\ InitNoCall


Range(s) == {s[k] : k \in 1..Len(s)}

(***************************************************************************)
(* The UI thread.  It is in the Tk event loop (root.mainloop) or inside a  *)
(* handler the event loop has called.  The handlers run from their first   *)
(* statement to their last without anything of the UI thread coming in     *)
(* between; add_files reads files between two appends to the batch, so the *)
(* batch thread can run after each of its iterations.  Callbacks queued    *)
(* with root.after run one at a time, in the order queued.                 *)
(***************************************************************************)
\* The UI thread is in the event loop: it takes the next event, and it
\* serves the Tk calls other threads make.
UiIdle == ui_pc = "idle"

Widgets == [button |-> process_button, value |-> progress_value]

\* What one queued callback does to the widgets that are modelled.  The text of
\* the status label is not: update_status, like the message boxes (showinfo,
\* showerror), leaves them as they are.
Apply(ev, w) ==
  CASE ev.fn = "progress_bar.config"   -> [w EXCEPT !.value = ev.value]
    [] ev.fn = "process_button.config" -> [w EXCEPT !.button = ev.state]
    [] OTHER                           -> w

RECURSIVE RunAll(_, _)
RunAll(q, w) == IF q = <<>> THEN w ELSE RunAll(Tail(q), Apply(Head(q), w))

\* The Tk event loop runs the oldest queued callback.
run_callback ==
  /\ UiIdle
  /\ after_queue # <<>>
  /\ LET w == Apply(Head(after_queue), Widgets) IN
       /\ process_button' = w.button
       /\ progress_value' = w.value
  /\ after_queue' = Tail(after_queue)
  /\ UNCHANGED <<current_batch, rotation_angle, processing, progress_maximum>>
  /\ UNCHANGED add_vars
  /\ UNCHANGED thread_vars
  /\ UNCHANGED hist_vars
  /\ UNCHANGED rot_vars

\* A modal dialog (tkinter.messagebox, tkinter.filedialog) runs the event
\* loop until the user answers it: the callbacks queued before are run.
DialogWidgets == RunAll(after_queue, Widgets)

\* The batch thread still reads self.current_batch: it has not yet evaluated
\* len(self.current_batch) at line 341.
RunReadsBatch == pc \in {"start", "for", "status", "progress", "body",
                         "complete"}

\* A user edit is handled: counted while the batch thread is alive.
Edit ==
  /\ UiIdle
  /\ pc # "none" => run_edits < MaxEdits
  /\ run_edits' = IF pc # "none" THEN run_edits + 1 ELSE run_edits

\* Mutant: a path is appended although it is in the batch already.
AcceptedAgain(batch, p) ==
  /\ isfile(p)
  /\ lower(p.suffix) \in valid_extensions
  /\ OpenOk(p)

\* add_files: one path is appended when it is a file with an allowed
\* extension that opens as an image and is not in the batch yet.
Accepted(batch, p) ==
  /\ isfile(p)
  /\ lower(p.suffix) \in valid_extensions
  /\ OpenOk(p)
  /\ p \notin Range(batch)

\* The body of "for file_path in files", lines 178-193: the batch after the
\* path p has been tested, and appended or not.
add_one(batch, p) == IF Accepted(batch, p) THEN Append(batch, p) ELSE batch

\* Mutant: a path that is not appended ends the loop.
AfterRejectedStop(rest) == <<>>

\* The loop goes on with the next path when a path is not appended: the
\* tests are ifs without else, and "except Exception as e: print(...)" is
\* inside the loop.
AfterRejected(rest) == Tail(rest)

\* The lists dropped on the window: up to MaxFiles paths, no path twice (a
\* list with a path twice is among those of EditFileLists).
FileLists ==
  {files \in UNION {[1..n -> Paths] : n \in 0..MaxFiles} :
     \A a, b \in 1..Len(files) : files[a] = files[b] => a = b}

\* add_files is called: "added_count = 0", and the for statement takes the
\* list.
add_files(files) ==
  /\ Edit
  /\ ui_pc' = "add"
  /\ add_rest' = files
  /\ UNCHANGED <<current_batch, rotation_angle, processing, progress_maximum>>
  /\ UNCHANGED ui_vars
  /\ UNCHANGED thread_vars
  /\ UNCHANGED <<posted, results, run_batch, run_angle, run_mutated,
                 no_images_warned, threads, tk_direct>>
  /\ UNCHANGED rot_vars

\* "for file_path in files": one iteration.  The files are read (isfile,
\* Image.open) between the appends of two iterations.
add_next ==
  /\ ui_pc = "add"
  /\ add_rest # <<>>
  /\ LET batch == add_one(current_batch, Head(add_rest))
     IN  /\ current_batch' = batch
         /\ run_mutated' = (run_mutated \/ (RunReadsBatch /\ batch # current_batch))
         /\ no_images_warned' = (no_images_warned /\ batch = <<>>)
  /\ add_rest' = IF Accepted(current_batch, Head(add_rest))
                   THEN Tail(add_rest)
                   ELSE AfterRejected(add_rest)
  /\ UNCHANGED ui_pc
  /\ UNCHANGED <<rotation_angle, processing, progress_maximum>>
  /\ UNCHANGED ui_vars
  /\ UNCHANGED thread_vars
  /\ UNCHANGED <<posted, results, run_batch, run_angle, run_edits,
                 threads, tk_direct, offered>>
  /\ UNCHANGED rot_vars

\* The list is exhausted: "self.update_status(...)", and add_files returns to
\* the event loop.
add_return ==
  /\ ui_pc = "add"
  /\ add_rest = <<>>
  /\ ui_pc' = "idle"
  /\ UNCHANGED add_rest
  /\ UNCHANGED <<current_batch, rotation_angle, processing, progress_maximum>>
  /\ UNCHANGED ui_vars
  /\ UNCHANGED thread_vars
  /\ UNCHANGED hist_vars
  /\ UNCHANGED rot_vars

\* on_drop: "self.add_files(files)"
on_drop(files) ==
  /\ add_files(files)
  /\ UNCHANGED offered

clear_batch ==
  /\ Edit
  /\ current_batch' = <<>>
  /\ run_mutated' = (run_mutated \/ (RunReadsBatch /\ current_batch # <<>>))
  /\ UNCHANGED <<rotation_angle, processing, progress_maximum>>
  /\ UNCHANGED ui_vars
  /\ UNCHANGED add_vars
  /\ UNCHANGED thread_vars
  /\ UNCHANGED <<posted, results, run_batch, run_angle, no_images_warned>>
  /\ UNCHANGED <<threads, tk_direct, offered>>
  /\ UNCHANGED rot_vars

\* The user moves the scale or types into the entry bound to rotation_angle.
set_rotation_angle(text) ==
  /\ Edit
  /\ rotation_angle' = text
  /\ UNCHANGED <<current_batch, processing, progress_maximum>>
  /\ UNCHANGED ui_vars
  /\ UNCHANGED add_vars
  /\ UNCHANGED thread_vars
  /\ UNCHANGED <<posted, results, run_batch, run_angle, run_mutated, no_images_warned>>
  /\ UNCHANGED <<threads, tk_direct, offered>>
  /\ UNCHANGED rot_vars


(***************************************************************************)
(* process_batch, on the UI thread.  dir is what askdirectory returns.     *)
(***************************************************************************)
\* Mutant: the test for an empty batch is missing.
BatchEmptyNever(batch) == FALSE

\* "if not self.current_batch"
BatchEmpty(batch) == batch = <<>>

\* Mutant: the total is one short.
BatchTotalShort(batch) == Len(batch) - 1

\* "self.progress_bar.config(maximum=len(self.current_batch))"
BatchTotal(batch) == Len(batch)

\* Mutant: the test of the processing flag is missing.
IsProcessingNever == FALSE

\* "if self.processing"
IsProcessing == processing

process_batch(dir) ==
  /\ UiIdle
  /\ UNCHANGED add_vars
  /\ \/ \* "if not self.current_batch": warning box, return
        /\ BatchEmpty(current_batch)
        /\ no_images_warned' = TRUE
        /\ process_button' = DialogWidgets.button
        /\ progress_value' = DialogWidgets.value
        /\ after_queue' = <<>>
        /\ UNCHANGED <<current_batch, rotation_angle, processing, progress_maximum>>
        /\ UNCHANGED thread_vars
        /\ UNCHANGED <<posted, results, run_batch, run_angle, run_mutated, run_edits>>
        /\ UNCHANGED <<threads, tk_direct, offered>>
        /\ UNCHANGED rot_vars
     \/ \* "if self.processing": return
        /\ ~BatchEmpty(current_batch)
        /\ IsProcessing
        /\ UNCHANGED <<current_batch, rotation_angle, processing, progress_maximum>>
        /\ UNCHANGED ui_vars
        /\ UNCHANGED thread_vars
        /\ UNCHANGED hist_vars
        /\ UNCHANGED rot_vars
     \/ \* "if not output_dir": the directory dialog was cancelled, return
        /\ ~BatchEmpty(current_batch)
        /\ ~IsProcessing
        /\ dir = DirCancelled
        /\ process_button' = DialogWidgets.button
        /\ progress_value' = DialogWidgets.value
        /\ after_queue' = <<>>
        /\ UNCHANGED <<current_batch, rotation_angle, processing, progress_maximum>>
        /\ UNCHANGED thread_vars
        /\ UNCHANGED hist_vars
        /\ UNCHANGED rot_vars
     \/ \* the batch thread is started
        /\ ~BatchEmpty(current_batch)
        /\ ~IsProcessing
        /\ dir # DirCancelled
        /\ processing' = TRUE
        /\ process_button' = "disabled"
        /\ progress_maximum' = BatchTotal(current_batch)
        /\ progress_value' = DialogWidgets.value
        /\ after_queue' = <<>>
        /\ pc' = "start"
        /\ output_dir' = dir
        /\ angle' = 0
        /\ processed_count' = 0
        /\ i' = 0
        /\ file_path' = NoPath
        /\ batch_len' = 0
        /\ posted' = <<>>
        /\ results' = <<>>
        /\ run_batch' = current_batch
        /\ run_mutated' = FALSE
        /\ run_edits' = 0
        /\ run_angle' = rotation_angle
        /\ threads' = threads + 1
        /\ tk_direct' = <<>>
        /\ UNCHANGED offered
        /\ UNCHANGED <<current_batch, rotation_angle, no_images_warned>>
        /\ UNCHANGED rot_vars

(***************************************************************************)
(* _process_batch_thread, on the batch thread.                             *)
(*                                                                         *)
(* A Tk call made by the batch thread (root.after, rotation_angle.get) is  *)
(* handed to the UI thread and returns when the event loop has served it:  *)
(* it is one step, taken while the UI thread is in the event loop.  The    *)
(* arguments of the root.after calls are locals of the thread or fixed,    *)
(* but for line 341, whose len(self.current_batch) is read from the shared *)
(* list before the call is made: a step of its own.                        *)
(***************************************************************************)
\* the callback is queued
Post(ev) ==
  /\ after_queue' = Append(after_queue, ev)
  /\ posted' = Append(posted, ev)

\* "self.root.after(0, f, args)" by the batch thread, which goes on at
\* position to
root_after(ev, to) ==
  /\ UiIdle
  /\ Post(ev)
  /\ pc' = to
  /\ UNCHANGED <<current_batch, rotation_angle, processing, process_button,
                 progress_maximum, progress_value>>
  /\ UNCHANGED add_vars
  /\ UNCHANGED <<output_dir, angle, processed_count, i, file_path, batch_len>>
  /\ UNCHANGED <<results, run_batch, run_angle, run_mutated, run_edits,
                 no_images_warned>>
  /\ UNCHANGED <<threads, tk_direct, offered>>
  /\ UNCHANGED rot_vars

\* "angle = self.rotation_angle.get()": a text that is no number raises, and
\* the thread is in the outer handler.
thread_start ==
  /\ pc = "start"
  /\ UiIdle
  /\ \/ /\ GetDoubleOk(rotation_angle)
        /\ angle' = GetDouble(rotation_angle)
        /\ processed_count' = 0
        /\ pc' = "for"
     \/ /\ ~GetDoubleOk(rotation_angle)
        /\ pc' = "except"
        /\ UNCHANGED <<angle, processed_count>>
  /\ UNCHANGED <<current_batch, rotation_angle, processing, progress_maximum>>
  /\ UNCHANGED ui_vars
  /\ UNCHANGED add_vars
  /\ UNCHANGED <<output_dir, i, file_path, batch_len>>
  /\ UNCHANGED <<posted, results, run_batch, run_angle, run_mutated, run_edits,
                 no_images_warned>>
  /\ tk_direct' = Append(tk_direct, "rotation_angle.get")
  /\ UNCHANGED <<threads, offered>>
  /\ UNCHANGED rot_vars

\* "except Exception as e": the error box is queued (line 347)
thread_except ==
  /\ pc = "except"
  /\ root_after([fn |-> "showerror", title |-> "Error"], "finally")

\* Mutant: the iterator skips an item.
NextIndexSkip(k) == k + 2

\* The list iterator moves on by one item.
NextIndex(k) == k + 1

\* "for i, (file_path, _, _) in enumerate(self.current_batch)": the iterator
\* reads the live list at its own index.
thread_for ==
  /\ pc = "for"
  /\ \/ /\ i < Len(current_batch)
        /\ file_path' = current_batch[i + 1]
        /\ i' = NextIndex(i)
        /\ pc' = "status"
     \/ /\ i >= Len(current_batch)
        /\ pc' = "complete"
        /\ UNCHANGED <<file_path, i>>
  /\ UNCHANGED <<current_batch, rotation_angle, processing, progress_maximum>>
  /\ UNCHANGED ui_vars
  /\ UNCHANGED add_vars
  /\ UNCHANGED <<output_dir, angle, processed_count, batch_len>>
  /\ UNCHANGED hist_vars
  /\ UNCHANGED rot_vars

\* f"Processing: {os.path.basename(file_path)}"
ItemStatus(p) ==
  [fn |-> "update_status",
   message |-> [msg |-> "Processing", name |-> basename(p)]]

\* Mutant: the progress value is not the index of the item.
ItemProgressStale(k) == [fn |-> "progress_bar.config", value |-> 0]

\* Mutant: the progress value counts the item in hand as done.
ItemProgressAhead(k) == [fn |-> "progress_bar.config", value |-> k + 1]

\* {'value': i}, for the item at index k of enumerate
ItemProgress(k) == [fn |-> "progress_bar.config", value |-> k]

\* line 313: the status of the item in hand is queued
thread_status ==
  /\ pc = "status"
  /\ root_after(ItemStatus(file_path), "progress")

\* line 314: the progress value of the item in hand is queued; the iterator
\* has moved past the item, whose index is i - 1
thread_progress ==
  /\ pc = "progress"
  /\ root_after(ItemProgress(i - 1), "body")

\* Image.open, rotate_equirectangular and save all succeed for the item.
ItemSucceeds(p, dir) == OpenOk(p) /\ LoadOk(p) /\ DirWritable(dir)

\* save_kwargs, chosen by img.format
save_kwargs(p) ==
  CASE ImageFormat(p) = "JPEG" -> [quality |-> 95, optimize |-> TRUE]
    [] ImageFormat(p) = "PNG"  -> [optimize |-> TRUE]
    [] OTHER                   -> <<>>

\* f"{input_path.stem}_rotated_{angle:.1f}deg{input_path.suffix}"
output_filename(p, a) ==
  p.stem \o "_rotated_" \o Format1f(a) \o "deg" \o p.suffix

\* "output_path = Path(output_dir) / output_filename"
output_path(dir, p, a) == <<dir, output_filename(p, a)>>

\* "rotated_img.save(output_path, **save_kwargs)" is given no format: PIL
\* takes the format from the extension of output_path, in lower case.
save_format(p) == ExtensionFormat(lower(p.suffix))

\* Mutant: an item that raises ends the loop.
AfterFailureBreak == "complete"

\* "except Exception as e: print(...)": where the thread goes on after an
\* item has raised.
AfterFailure == "for"

\* The rest of the loop body: an item that raises is printed and the loop
\* goes on; an item that is saved is counted.
thread_body ==
  /\ pc = "body"
  /\ \/ /\ ItemSucceeds(file_path, output_dir)
        /\ processed_count' = processed_count + 1
        /\ results' = Append(results,
                        [path |-> file_path, ok |-> TRUE,
                         angle |-> angle,
                         saved |-> output_path(output_dir, file_path, angle),
                         format |-> save_format(file_path),
                         kwargs |-> save_kwargs(file_path)])
        /\ pc' = "for"
     \/ /\ ~ItemSucceeds(file_path, output_dir)
        /\ results' = Append(results, [path |-> file_path, ok |-> FALSE])
        /\ UNCHANGED processed_count
        /\ pc' = AfterFailure
  /\ UNCHANGED <<current_batch, rotation_angle, processing, progress_maximum>>
  /\ UNCHANGED ui_vars
  /\ UNCHANGED add_vars
  /\ UNCHANGED <<output_dir, angle, i, file_path, batch_len>>
  /\ UNCHANGED <<posted, run_batch, run_angle, run_mutated, run_edits, no_images_warned>>
  /\ UNCHANGED <<threads, tk_direct, offered>>
  /\ UNCHANGED rot_vars

\* line 341, the argument: "len(self.current_batch)" is read from the live
\* list, before the call is handed to the UI thread
thread_complete ==
  /\ pc = "complete"
  /\ batch_len' = Len(current_batch)
  /\ pc' = "total"
  /\ UNCHANGED <<current_batch, rotation_angle, processing, progress_maximum>>
  /\ UNCHANGED ui_vars
  /\ UNCHANGED add_vars
  /\ UNCHANGED <<output_dir, angle, processed_count, i, file_path>>
  /\ UNCHANGED hist_vars
  /\ UNCHANGED rot_vars

\* {'value': len(self.current_batch)}
TotalProgress(n) == [fn |-> "progress_bar.config", value |-> n]

\* f"Completed! Processed {processed_count} images"
CompletedStatus(count) ==
  [fn |-> "update_status",
   message |-> [msg |-> "Completed", processed |-> count]]

\* messagebox.showinfo, "Complete", f"Successfully processed
\* {processed_count} images\nOutput directory: {output_dir}"
Summary(count, dir) ==
  [fn |-> "showinfo", title |-> "Complete", processed |-> count,
   output_dir |-> dir]

\* line 341, the call
thread_total ==
  /\ pc = "total"
  /\ root_after(TotalProgress(batch_len), "completed")

\* line 342
thread_completed ==
  /\ pc = "completed"
  /\ root_after(CompletedStatus(processed_count), "showinfo")

\* lines 343-344
thread_showinfo ==
  /\ pc = "showinfo"
  /\ root_after(Summary(processed_count, output_dir), "finally")

\* Mutant: the button is not enabled again.
ButtonEnableNot == [fn |-> "process_button.config", state |-> "disabled"]

\* {'state': 'normal'}
ButtonEnable == [fn |-> "process_button.config", state |-> "normal"]

\* {'value': 0}
ProgressReset == [fn |-> "progress_bar.config", value |-> 0]

\* finally, "Re-enable UI": line 351
thread_finally ==
  /\ pc = "finally"
  /\ root_after(ButtonEnable, "reset")

\* line 352
thread_reset ==
  /\ pc = "reset"
  /\ root_after(ProgressReset, "flag")

\* "self.processing = False", and the thread ends: its locals are gone, and
\* the history of the run is dropped with them.
thread_flag ==
  /\ pc = "flag"
  /\ processing' = FALSE
  /\ pc' = "none"
  /\ output_dir' = ""
  /\ angle' = 0
  /\ processed_count' = 0
  /\ i' = 0
  /\ file_path' = NoPath
  /\ batch_len' = 0
  /\ posted' = <<>>
  /\ results' = <<>>
  /\ run_batch' = <<>>
  /\ run_mutated' = FALSE
  /\ run_edits' = 0
  /\ run_angle' = ""
  /\ threads' = threads - 1
  /\ tk_direct' = <<>>
  /\ UNCHANGED offered
  /\ UNCHANGED <<current_batch, rotation_angle, progress_maximum,
                 no_images_warned>>
  /\ UNCHANGED ui_vars
  /\ UNCHANGED add_vars
  /\ UNCHANGED rot_vars

Next ==
  \/ \E files \in FileLists : on_drop(files)
  \/ add_next
  \/ add_return
  \/ clear_batch
  \/ \E text \in AngleTexts : set_rotation_angle(text)
  \/ \E dir \in Directories : process_batch(dir)
  \/ run_callback
  \/ thread_start
  \/ thread_except
  \/ thread_for
  \/ thread_status
  \/ thread_progress
  \/ thread_body
  \/ thread_complete
  \/ thread_total
  \/ thread_completed
  \/ thread_showinfo
  \/ thread_finally
  \/ thread_reset
  \/ thread_flag

Spec == Init /\ [][Next]_vars


(***************************************************************************)
(* The counters and the record of a run.                                   *)
(***************************************************************************)
\* total: the number of inputs when the run started (the progress maximum)
Total == progress_maximum

\* completed: the items saved
Completed == processed_count

\* failed: the items whose processing raised (one error line printed each)
Failed == Cardinality({k \in 1..Len(results) : ~results[k].ok})

\* the paths of the items handled so far, in the order handled
ResultPaths == [k \in 1..Len(results) |-> results[k].path]

\* the completion summary (the "Complete" box) is queued
SummaryPosted == \E k \in 1..Len(posted) : posted[k].fn = "showinfo"

\* the run has entered the loop: its counters exist
CountersExist ==
  pc \in {"for", "status", "progress", "body",
          "complete", "total", "completed", "showinfo"} \/ SummaryPosted

\* the loop has run to its end
LoopDone ==
  pc \in {"complete", "total", "completed", "showinfo"} \/ SummaryPosted

\* an item is in hand: taken from the list, its result still to come
ItemInHand == pc \in {"status", "progress", "body"}

\* the items of the batch the run started with that cannot be processed
Failing(batch, dir) == {k \in 1..Len(batch) : ~ItemSucceeds(batch[k], dir)}

(***************************************************************************)
(* C1  Per-file failure isolation.  In a run whose batch is not edited     *)
(* while it is processed, every item handled so far is the next item of    *)
(* the batch, whatever the outcome of the items before it; once the loop   *)
(* has ended every item of the batch has been attempted, and when exactly  *)
(* one of the N files fails, completed = N - 1 and failed = 1.             *)
(***************************************************************************)
C1_FailureIsolation ==
  (CountersExist /\ ~run_mutated) =>
    /\ Len(results) <= Len(run_batch)
    /\ ResultPaths = SubSeq(run_batch, 1, Len(results))
    /\ LoopDone =>
         /\ ResultPaths = run_batch
         /\ Cardinality(Failing(run_batch, output_dir)) = 1 =>
              /\ Completed = Len(run_batch) - 1
              /\ Failed = 1

\* A run of three files has ended; the first file failed, the other two were
\* processed.
C1_Witness ==
  /\ pc = "flag"
  /\ SummaryPosted
  /\ ~run_mutated
  /\ Len(run_batch) = 3
  /\ Len(results) = 3
  /\ ~results[1].ok
  /\ Completed = 2
  /\ Failed = 1

(***************************************************************************)
(* C2  Exactly-once processing.  When the completion summary of a run      *)
(* whose batch is not edited while it is processed is queued, the results  *)
(* of the run are, one for one and in order, the inputs of the batch: no   *)
(* input is skipped and none has two results.                              *)
(***************************************************************************)
C2_ExactlyOnce ==
  (SummaryPosted /\ ~run_mutated) =>
    /\ Len(results) = Len(run_batch)
    /\ \A k \in 1..Len(run_batch) :
         Cardinality({j \in 1..Len(results) : results[j].path = run_batch[k]}) = 1

\* The summary of an unedited run of three files is queued.
C2_Witness ==
  /\ SummaryPosted
  /\ ~run_mutated
  /\ Len(run_batch) = 3
  /\ Len(results) = 3

(***************************************************************************)
(* C3  Counter invariant.  In every state of a run whose batch is not      *)
(* edited while it is processed, completed + failed <= total; the two      *)
(* sides are equal once the loop has ended, and in no state in which an    *)
(* item is in hand or still to come.                                       *)
(***************************************************************************)
C3_CounterInvariant ==
  (CountersExist /\ ~run_mutated) =>
    /\ Completed + Failed <= Total
    /\ LoopDone => Completed + Failed = Total
    /\ Completed + Failed = Total => (~ItemInHand /\ i >= Len(run_batch))

\* Mid-run: one of two items is done, the other is in hand.
C3_Witness ==
  /\ pc = "body"
  /\ ~run_mutated
  /\ Total = 2
  /\ Completed + Failed = 1

(***************************************************************************)
(* C4  No mid-run mutation of the input set.  Once the loop of a run has   *)
(* ended, the items the run handled are exactly the batch as it was when   *)
(* the run started, whatever the UI thread did to the batch meanwhile.     *)
(***************************************************************************)
C4_InputSetFixed == LoopDone => ResultPaths = run_batch


(***************************************************************************)
(* The progress events of a run, as the sink receives them.                *)
(***************************************************************************)
IsProgress(ev) == ev.fn = "progress_bar.config"
IsItemStatus(ev) == ev.fn = "update_status" /\ ev.message.msg = "Processing"

\* the progress values queued by the run, in order
ProgressValues ==
  LET evs == SelectSeq(posted, IsProgress)
  IN  [k \in 1..Len(evs) |-> evs[k].value]

\* the "Processing: <name>" events queued by the run, in order
ItemStatuses == SelectSeq(posted, IsItemStatus)

StrictlyIncreasing(v) == \A a, b \in 1..Len(v) : a < b => v[a] < v[b]

Occurrences(v, x) == Cardinality({k \in 1..Len(v) : v[k] = x})

(***************************************************************************)
(* C5  Progress monotonicity, as claimed: the progress values a run        *)
(* delivers are strictly increasing, and at the end of the run the value   *)
(* total has been delivered exactly once.  Stated for the runs whose batch *)
(* is not edited while it is processed and that end with the summary.      *)
(***************************************************************************)
C5_Original ==
  ~run_mutated =>
    /\ StrictlyIncreasing(ProgressValues)
    /\ (pc = "flag" /\ SummaryPosted) => Occurrences(ProgressValues, Total) = 1

\* the items whose progress value the loop has queued
Announced == IF pc \in {"status", "progress"} THEN i - 1 ELSE i

\* the value queued after the loop (line 341) is queued
TotalPosted == pc \in {"completed", "showinfo"} \/ SummaryPosted

(***************************************************************************)
(* C5  Progress monotonicity, amended.  The progress values queued by the  *)
(* loop are strictly increasing: the k-th item handled is announced with   *)
(* the value k - 1.  When the loop has ended one more value is queued, the *)
(* length of the batch; in a run whose batch was not edited it is total,   *)
(* larger than every value before it and delivered for the only time.      *)
(* The teardown of the run then queues the value 0.                        *)
(***************************************************************************)
C5_ProgressValues ==
  LET v == ProgressValues
  IN  /\ Len(v) = Announced + (IF TotalPosted THEN 1 ELSE 0)
                            + (IF pc = "flag" THEN 1 ELSE 0)
      /\ \A k \in 1..Announced : v[k] = k - 1
      /\ (TotalPosted /\ ~run_mutated) =>
           /\ v[i + 1] = Total
           /\ StrictlyIncreasing(SubSeq(v, 1, i + 1))
           /\ Occurrences(SubSeq(v, 1, i + 1), Total) = 1
      /\ pc = "flag" => v[Len(v)] = 0

\* An unedited run of two files has ended: 0, 1, then total, then the reset.
C5_Witness ==
  /\ pc = "flag"
  /\ ~run_mutated
  /\ Total = 2
  /\ ProgressValues = <<0, 1, 2, 0>>

(***************************************************************************)
(* C6  Causal ordering of progress, as claimed: the progress event that    *)
(* names an item is not queued before that item has its result.            *)
(***************************************************************************)
C6_Original == Len(ItemStatuses) <= Len(results)

(***************************************************************************)
(* C6  Causal ordering of progress, amended.  The progress event of an     *)
(* item (its name, and its count) is queued before the processing of that  *)
(* item starts and after every item before it has its result: its count    *)
(* is the number of results received so far.                               *)
(***************************************************************************)
C6_ProgressOrdering ==
  /\ Len(ItemStatuses) =
       Len(results) + (IF pc \in {"progress", "body"} THEN 1 ELSE 0)
  /\ \A k \in 1..Len(results) :
       ItemStatuses[k].message.name = basename(results[k].path)
  /\ pc \in {"progress", "body"} =>
       ItemStatuses[Len(results) + 1].message.name = basename(file_path)
  /\ \A k \in 1..Len(ItemStatuses) :
       /\ posted[2 * k - 1] = ItemStatuses[k]
       /\ (k <= Len(results) \/ pc = "body") =>
            /\ IsProgress(posted[2 * k])
            /\ posted[2 * k].value = k - 1
  /\ pc = "body" => ProgressValues[Len(ProgressValues)] = Len(results)

\* The event of the second item is queued; the item itself is still in hand.
C6_Witness ==
  /\ pc = "body"
  /\ Len(results) = 1
  /\ Len(ItemStatuses) = 2
  /\ ProgressValues = <<0, 1>>

(***************************************************************************)
(* C7  Guaranteed completion: a run that has reached its last statement    *)
(* has queued the completion summary.                                      *)
(***************************************************************************)
C7_NormalCompletion == pc = "flag" => SummaryPosted

(***************************************************************************)
(* C8  Failures are reported: a completion summary queued by a run in      *)
(* which items failed carries the number of failed items.                  *)
(***************************************************************************)
C8_FailedReported ==
  \A k \in 1..Len(posted) :
    (posted[k].fn = "showinfo" /\ Failed > 0) =>
      /\ "failed" \in DOMAIN posted[k]
      /\ posted[k].failed = Failed

(***************************************************************************)
(* C9  Empty batch rejected synchronously: a call of process_batch with an *)
(* empty batch starts no thread, handles no file, queues nothing and       *)
(* leaves the processing flag as it is; no run has a total of 0.           *)
(***************************************************************************)
C9_EmptyBatchRejected ==
  /\ [][ (current_batch = <<>> /\ \E dir \in Directories : process_batch(dir))
           => /\ processing' = processing
              /\ pc' = pc
              /\ posted' = posted
              /\ results' = results
              /\ no_images_warned' ]_vars
  /\ [](pc # "none" => Total >= 1)

\* The warning box has been shown for an empty batch; nothing runs.
C9_Witness ==
  /\ no_images_warned
  /\ current_batch = <<>>
  /\ ~processing
  /\ pc = "none"

(***************************************************************************)
(* C10  Output-directory precondition: no batch thread runs with an output *)
(* directory that is missing or not writable.                              *)
(***************************************************************************)
C10_BadDirRejected == pc # "none" => DirWritable(output_dir)


(***************************************************************************)
(* The workers of a run.  process_batch starts one thread, and that thread *)
(* handles the items one after the other: an item is in flight while the   *)
(* thread is in the loop body with it.                                     *)
(***************************************************************************)
\* multiprocessing.cpu_count() on the host
cpu_count == 2

\* the indexes (in the live list) of the items claimed and not yet finished
InFlight == IF ItemInHand THEN {i} ELSE {}

\* an input of the run is still unclaimed
Unclaimed ==
  pc \in {"for", "status", "progress", "body"} /\ i < Len(current_batch)

(***************************************************************************)
(* C11  Bounded worker pool.  At most cpu_count items are in flight and no *)
(* item is claimed twice; and on a host with more than one core, whenever  *)
(* one item is in flight and another input is still unclaimed, a worker is *)
(* free to claim it: the step that claims the next item is enabled, so     *)
(* that a state with two items in flight is reached.                       *)
(***************************************************************************)
C11_WorkerPool ==
  /\ Cardinality(InFlight) <= cpu_count
  /\ (~run_mutated /\ CountersExist) =>
       \A a, b \in 1..Len(results) :
         results[a].path = results[b].path => a = b
  /\ (cpu_count > 1 /\ InFlight # {} /\ Unclaimed) => ENABLED thread_for


(***************************************************************************)
(* rotate_equirectangular(image, angle_degrees).                           *)
(*                                                                         *)
(* A PIL image is its format attribute and its pixel array.  The array     *)
(* np.array(image) is kept with its number of dimensions: 2 for a          *)
(* grayscale image (height, width), 3 for a colour image (height, width,   *)
(* channels).  data[r][j] is the pixel of row r and column j (both from    *)
(* 1), the tuple of its channel values: one value for a grayscale pixel.   *)
(***************************************************************************)
\* Widest image drawn.
MaxWidth == 3

Heights == {1, 2}

\* The pixel values a drawn image is made of, by kind of image.
PixelValues(ndim) ==
  IF ndim = 2 THEN {<<0>>, <<255>>} ELSE {<<0, 0, 0>>, <<255, 0, 128>>}

Arrays ==
  UNION { [ndim : {ndim}, data : [1..h -> [1..w -> PixelValues(ndim)]]] :
            <<ndim, h, w>> \in {2, 3} \X Heights \X (1..MaxWidth) }

\* An 8 x 4 RGB image with a distinct colour in each column.
TestImage ==
  [format |-> "PNG",
   arr |-> [ndim |-> 3,
            data |-> [r \in 1..4 |-> [j \in 1..8 |-> <<32 * (j - 1), 128, 255 - 32 * (j - 1)>>]]]]

\* The images rotate_equirectangular is called with: as opened from a file.
Images == [format : {"PNG"}, arr : Arrays] \cup {TestImage}

\* The angles it is called with, in degrees: positive and negative, multiples
\* of 360 / width or not, inside and outside (-360, 360), and 3000, whose
\* offset on 3 columns is 25 and whose double product is 24.999999999999996.
Angles == {-3000, -450, -360, -270, -120, -100, -90, -45, 0,
           45, 90, 100, 120, 180, 270, 360, 450, 3000}

\* np.array(image)
array(image) == image.arr

\* img_array.shape
shape(arr) ==
  IF arr.ndim = 3
  THEN <<Len(arr.data), Len(arr.data[1]), Len(arr.data[1][1])>>
  ELSE <<Len(arr.data), Len(arr.data[1])>>

\* Image.fromarray(rotated_array): a new image, of no file format
fromarray(arr) == [format |-> "None", arr |-> arr]

(***************************************************************************)
(* Double precision.  np.radians, the division by 2 * np.pi and the        *)
(* product with the width are computed in IEEE 754 doubles, each result    *)
(* rounded to 53 bits, to nearest, ties to even.  A double is its sign     *)
(* (1, -1, or 0 for zero), its mantissa man, 2^52 <= man < 2^53, and its   *)
(* exponent exp: the value sign * man * 2^exp.  A mantissa, as any natural *)
(* number too large for one machine integer, is the sequence of its digits *)
(* in base 2^15, the least significant first, without leading zeros.       *)
(* Infinities, NaN and subnormal numbers do not arise from integer angles  *)
(* and widths.                                                             *)
(***************************************************************************)
Base == 32768

MaxOf(S) == CHOOSE m \in S : \A n \in S : n <= m

\* digit k of x, 0 beyond its length
Limb(x, k) == IF k \in DOMAIN x THEN x[k] ELSE 0

\* x without leading zero digits
Trim(x) ==
  LET nz == {k \in DOMAIN x : x[k] # 0}
  IN  IF nz = {} THEN <<>> ELSE SubSeq(x, 1, MaxOf(nz))

\* the digits of sum(v[k] * Base^(k-1)) + c, for values v[k] of any size
\* and sign
RECURSIVE Carry(_, _)
Carry(v, c) ==
  IF v = <<>>
  THEN IF c = 0 THEN <<>> ELSE <<c % Base>> \o Carry(<<>>, c \div Base)
  ELSE <<(v[1] + c) % Base>> \o Carry(Tail(v), (v[1] + c) \div Base)

\* the natural number n as digits
Big(n) == Carry(<<n>>, 0)

\* the machine integer of the digits x
RECURSIVE ToInt(_)
ToInt(x) == IF x = <<>> THEN 0 ELSE x[1] + Base * ToInt(Tail(x))

AddBig(x, y) ==
  Trim(Carry([k \in 1..MaxOf({Len(x), Len(y)}) |-> Limb(x, k) + Limb(y, k)], 0))

\* x - y, for x >= y
SubBig(x, y) == Trim(Carry([k \in DOMAIN x |-> x[k] - Limb(y, k)], 0))

\* x * d, for one digit d
MulSmall(x, d) == Trim(Carry([k \in DOMAIN x |-> x[k] * d], 0))

RECURSIVE MulBig(_, _)
MulBig(x, y) ==
  IF y = <<>> THEN <<>>
  ELSE AddBig(MulSmall(x, y[1]), <<0>> \o MulBig(x, Tail(y)))

\* x < y
Less(x, y) ==
  IF Len(x) # Len(y) THEN Len(x) < Len(y)
  ELSE LET d == {k \in DOMAIN x : x[k] # y[k]}
       IN  d # {} /\ x[MaxOf(d)] < y[MaxOf(d)]

\* the number of bits of x
BitLen(x) ==
  IF x = <<>> THEN 0
  ELSE 15 * (Len(x) - 1)
         + (CHOOSE b \in 1..15 : 2^(b - 1) <= x[Len(x)] /\ x[Len(x)] < 2^b)

\* x * 2^k
ShiftLeft(x, k) ==
  LET q == k \div 15
      r == k % 15
  IN  Trim([j \in 1..q |-> 0] \o Carry([j \in DOMAIN x |-> x[j] * 2^r], 0))

\* x \div 2^k
ShiftRight(x, k) ==
  LET q == k \div 15
      r == k % 15
      n == Len(x) - q
  IN  IF n <= 0 THEN <<>>
      ELSE Trim([j \in 1..n |->
                   (x[j + q] \div 2^r) + (Limb(x, j + q + 1) % 2^r) * 2^(15 - r)])

\* bit k of x, the lowest being bit 0
Bit(x, k) == (Limb(x, k \div 15 + 1) \div 2^(k % 15)) % 2

\* The double nearest to m * 2^e, for a natural m # 0, ties to the even
\* mantissa; sticky tells that the value lies above m * 2^e, by less than 2^e.
Round(m, e, sticky) ==
  LET len == BitLen(m)
  IN  IF len <= 53
      THEN [man |-> ShiftLeft(m, 53 - len), exp |-> e - (53 - len)]
      ELSE LET s == len - 53
               kept == ShiftRight(m, s)
               half == Bit(m, s - 1) = 1
               rest == sticky \/ ShiftLeft(ShiftRight(m, s - 1), s - 1) # m
               up == half /\ (rest \/ kept[1] % 2 = 1)
               r == IF up THEN AddBig(kept, <<1>>) ELSE kept
           IN  IF BitLen(r) = 54
               THEN [man |-> ShiftRight(r, 1), exp |-> e + s + 1]
               ELSE [man |-> r, exp |-> e + s]

Zero == [sign |-> 0, man |-> <<>>, exp |-> 0]

Signed(sign, d) == [sign |-> sign, man |-> d.man, exp |-> d.exp]

\* float(n): the double of the integer n, which is exact
float(n) ==
  IF n = 0 THEN Zero
  ELSE IF n > 0 THEN Signed(1, Round(Big(n), 0, FALSE))
  ELSE Signed(-1, Round(Big(-n), 0, FALSE))

\* x * y in doubles
float_mul(x, y) ==
  IF x.sign = 0 \/ y.sign = 0 THEN Zero
  ELSE Signed(x.sign * y.sign,
              Round(MulBig(x.man, y.man), x.exp + y.exp, FALSE))

\* the largest digit q with q * D <= R, from an estimate not below it
RECURSIVE Fix(_, _, _)
Fix(R, D, q) == IF Less(R, MulSmall(D, q)) THEN Fix(R, D, q - 1) ELSE q

\* R \div D for R < D * Base: estimated from the leading digits
QuotDigit(R, D) ==
  LET n == Len(D)
      est == (Limb(R, n + 1) * Base + Limb(R, n)) \div D[n]
  IN  Fix(R, D, IF est < Base THEN est ELSE Base - 1)

\* long division of the digits N by D: quotient digits and remainder
RECURSIVE LongDiv(_, _)
LongDiv(N, D) ==
  IF N = <<>> THEN [q |-> <<>>, r |-> <<>>]
  ELSE LET prev == LongDiv(Tail(N), D)
           R == Trim(<<N[1]>> \o prev.r)
           digit == QuotDigit(R, D)
       IN  [q |-> <<digit>> \o prev.q, r |-> SubBig(R, MulSmall(D, digit))]

\* x / y in doubles, y # 0: the quotient of the mantissas to 60 bits and
\* whether anything is left
float_div(x, y) ==
  IF x.sign = 0 THEN Zero
  ELSE LET d == LongDiv(<<0, 0, 0, 0>> \o ShiftLeft(x.man, 7),
                        ShiftLeft(y.man, 7))
       IN  Signed(x.sign * y.sign,
                  Round(Trim(d.q), x.exp - y.exp - 60, d.r # <<>>))

\* int(x) for a double x: the fraction is cut off, towards 0
int(x) ==
  IF x.sign = 0 THEN 0
  ELSE x.sign * ToInt(IF x.exp >= 0 THEN ShiftLeft(x.man, x.exp)
                      ELSE ShiftRight(x.man, -x.exp))

\* np.pi = 0x1.921fb54442d18p+1
pi == [sign |-> 1, man |-> <<11544, 10376, 2029, 201>>, exp |-> -51]

\* the factor of np.radians: pi / 180, in doubles
DEG2RAD == float_div(pi, float(180))

\* np.radians(x) = x * (pi / 180)
radians(x) == float_mul(float(x), DEG2RAD)

\* Mutant: the pixel offset is rounded to the nearest integer (halves up).
shift_pixels_round(angle_degrees, width) ==
  (2 * angle_degrees * width + 360) \div 720

\* "angle_radians = np.radians(angle_degrees)" and
\* "shift_pixels = int((angle_radians / (2 * np.pi)) * width)": three
\* operations in doubles, then the fraction is cut off.
shift_pixels(angle_degrees, width) ==
  LET angle_radians == radians(angle_degrees)
  IN  int(float_mul(float_div(angle_radians, float_mul(float(2), pi)),
                    float(width)))

\* Mutant: the columns move the other way.
roll_reverse(arr, shift) ==
  LET width == Len(arr.data[1])
      k == (-shift) % width
  IN  [arr EXCEPT !.data =
         [r \in 1..Len(arr.data) |->
            SubSeq(arr.data[r], width - k + 1, width)
              \o SubSeq(arr.data[r], 1, width - k)]]

\* Mutant: the columns pushed over the edge are lost, zeros come in.
roll_no_wrap(arr, shift) ==
  LET width == Len(arr.data[1])
  IN  [arr EXCEPT !.data =
         [r \in 1..Len(arr.data) |->
            [j \in 1..width |->
               IF j - shift \in 1..width
               THEN arr.data[r][j - shift]
               ELSE [c \in DOMAIN arr.data[r][j] |-> 0]]]]

\* Mutant: the columns pushed over the edge are cut off.
roll_cut(arr, shift) ==
  LET width == Len(arr.data[1])
      k == shift % width
  IN  [arr EXCEPT !.data =
         [r \in 1..Len(arr.data) |-> SubSeq(arr.data[r], 1, width - k)]]

\* np.roll(img_array, shift_pixels, axis=1): the shift is reduced modulo the
\* width, and in every row the last k columns are put before the others.
roll(arr, shift) ==
  LET width == Len(arr.data[1])
      k == shift % width
  IN  [arr EXCEPT !.data =
         [r \in 1..Len(arr.data) |->
            SubSeq(arr.data[r], width - k + 1, width)
              \o SubSeq(arr.data[r], 1, width - k)]]

\* Mutant: the test for angle 0 is missing.
angle_is_zero_never(angle_degrees) == FALSE

\* "if angle_degrees == 0"
angle_is_zero(angle_degrees) == angle_degrees = 0

\* the local shift_pixels after the call: unset when the function returned
\* before computing it
shift_local(image, angle_degrees) ==
  IF angle_is_zero(angle_degrees) THEN <<>>
  ELSE <<shift_pixels(angle_degrees, shape(array(image))[2])>>

rotate_equirectangular(image, angle_degrees) ==
  IF angle_is_zero(angle_degrees) THEN image
  ELSE LET img_array == array(image)
           width == shape(img_array)[2]
       IN  fromarray(roll(img_array, shift_pixels(angle_degrees, width)))

(***************************************************************************)
(* rotate_equirectangular on its own: it is called with an image and an    *)
(* angle drawn from Images and Angles; its result is then rotated back by  *)
(* the opposite angle, and the image is rotated by the angle plus a full   *)
(* turn.                                                                   *)
(***************************************************************************)
InitRotate ==
  /\ InitBatch
  /\ rot_pc = "call"
  /\ rot_image \in Images
  /\ rot_angle \in Angles
  /\ rot_shift = <<>>
  /\ rot_out = NoImage
  /\ rot_back = NoImage
  /\ rot_next = NoImage

\* rotated = rotate_equirectangular(image, angle)
call_rotate ==
  /\ rot_pc = "call"
  /\ rot_out' = rotate_equirectangular(rot_image, rot_angle)
  /\ rot_shift' = shift_local(rot_image, rot_angle)
  /\ rot_pc' = "inverse"
  /\ UNCHANGED <<rot_image, rot_angle, rot_back, rot_next>>
  /\ UNCHANGED batch_vars

\* back = rotate_equirectangular(rotated, -angle)
call_inverse ==
  /\ rot_pc = "inverse"
  /\ rot_back' = rotate_equirectangular(rot_out, -rot_angle)
  /\ rot_pc' = "period"
  /\ UNCHANGED <<rot_image, rot_angle, rot_shift, rot_out, rot_next>>
  /\ UNCHANGED batch_vars

\* next = rotate_equirectangular(image, angle + 360)
call_period ==
  /\ rot_pc = "period"
  /\ rot_next' = rotate_equirectangular(rot_image, rot_angle + 360)
  /\ rot_pc' = "done"
  /\ UNCHANGED <<rot_image, rot_angle, rot_shift, rot_out, rot_back>>
  /\ UNCHANGED batch_vars

NextRotate ==
  \/ call_rotate
  \/ call_inverse
  \/ call_period

SpecRotate == InitRotate /\ [][NextRotate]_vars

\* the call has returned
Rotated == rot_pc \in {"inverse", "period", "done"}

\* width, and pixel (r, j) with rows and columns counted from 0
Width(image) == shape(array(image))[2]
Height(image) == shape(array(image))[1]
Pixel(image, r, j) == array(image).data[r + 1][j + 1]

Abs(x) == IF x >= 0 THEN x ELSE -x

(***************************************************************************)
(* C12  Shift amount, as claimed: the shift is the pixel offset            *)
(* (theta / 360) * width rounded to the nearest integer: it is no further  *)
(* than half a pixel from it.                                              *)
(***************************************************************************)
C12_Original ==
  (Rotated /\ rot_shift # <<>>) =>
    Abs(360 * rot_shift[1] - rot_angle * Width(rot_image)) <= 180

(***************************************************************************)
(* C12  Shift amount, amended.  The shift is the pixel offset              *)
(* (theta / 360) * width, computed in doubles, with its fraction cut off,  *)
(* for positive and for negative angles: an integer of the sign of theta,  *)
(* never larger in size than the offset, and less than one pixel short of  *)
(* it when the offset has a fraction.  When the offset is a whole number   *)
(* the shift is that number or, where the double product falls below it,   *)
(* one less in size: 24 for angle 3000 on 3 columns, whose offset is 25.   *)
(* The result is the image moved by that many columns.                     *)
(***************************************************************************)
C12_ShiftTruncated ==
  (Rotated /\ rot_shift # <<>>) =>
    LET s == rot_shift[1]
        w == Width(rot_image)
        short == Abs(rot_angle * w) - 360 * Abs(s)
    IN  /\ s * rot_angle >= 0
        /\ 0 <= short
        /\ IF (rot_angle * w) % 360 = 0 THEN short \in {0, 360} ELSE short < 360
        /\ (rot_angle = 3000 /\ w = 3) => s = 24
        /\ \A r \in 0..(Height(rot_image) - 1), j \in 0..(w - 1) :
             Pixel(rot_out, r, j) = Pixel(rot_image, r, (j - s) % w)

\* Angle -100 on a 3-column image: the offset is -0.83, the shift is 0.
C12_Witness ==
  /\ Rotated
  /\ rot_angle = -100
  /\ Width(rot_image) = 3
  /\ rot_shift = <<0>>
  /\ rot_out.arr = rot_image.arr

\* the shift the call applied: none was computed for angle 0
ShiftApplied == IF rot_shift = <<>> THEN 0 ELSE rot_shift[1]

\* column j of an image, top to bottom
Column(image, j) == [r \in 1..Height(image) |-> Pixel(image, r - 1, j)]

(***************************************************************************)
(* C13  Wraparound and direction of the shift.  For every row r and column *)
(* j, the output pixel (r, j) is the input pixel (r, (j - shift) mod       *)
(* width): no pixel changes its row.  For the 8-column image and angle 90  *)
(* the shift is 2, and output column 0 is input column 6.                  *)
(***************************************************************************)
C13_Wraparound ==
  Rotated =>
    LET w == Width(rot_image)
    IN  /\ Height(rot_out) = Height(rot_image)
        /\ Width(rot_out) = w
        /\ \A r \in 0..(Height(rot_image) - 1), j \in 0..(w - 1) :
             Pixel(rot_out, r, j) = Pixel(rot_image, r, (j - ShiftApplied) % w)
        /\ (rot_image = TestImage /\ rot_angle = 90) =>
             /\ rot_shift = <<2>>
             /\ Column(rot_out, 0) = Column(rot_image, 6)

\* The 8-column image has been rotated by 90 degrees: its columns have moved.
C13_Witness ==
  /\ Rotated
  /\ rot_image = TestImage
  /\ rot_angle = 90
  /\ Column(rot_out, 0) = Column(rot_image, 6)
  /\ Column(rot_out, 0) # Column(rot_image, 0)

(***************************************************************************)
(* C14  Periodicity.  Rotating an image by theta + 360 gives the pixels    *)
(* that rotating it by theta gives, for every image and every angle drawn: *)
(* positive or negative, with a fractional pixel offset or without.        *)
(***************************************************************************)
C14_Periodicity == rot_pc = "done" => rot_next.arr = rot_out.arr

\* theta is an exact multiple of 360 / width
ExactMultiple(theta, width) == (theta * width) % 360 = 0

(***************************************************************************)
(* C15  Round trip.  For every image and every angle theta that is an      *)
(* exact multiple of 360 / width, rotating by theta and then by -theta     *)
(* gives the image back, pixel for pixel.                                  *)
(***************************************************************************)
C15_RoundTrip ==
  (rot_pc \in {"period", "done"} /\ ExactMultiple(rot_angle, Width(rot_image)))
    => rot_back.arr = rot_image.arr

\* A 3-column image was rotated by 120 degrees, which changed it, and back.
C15_Witness ==
  /\ rot_pc = "done"
  /\ rot_angle = 120
  /\ Width(rot_image) = 3
  /\ rot_out.arr # rot_image.arr
  /\ rot_back.arr = rot_image.arr

(***************************************************************************)
(* C16  Identity at zero.  Called with angle 0, rotate_equirectangular     *)
(* returns the image it was given, format and pixels, and computes no      *)
(* shift.                                                                  *)
(***************************************************************************)
C16_IdentityAtZero ==
  (Rotated /\ rot_angle = 0) =>
    /\ rot_out = rot_image
    /\ rot_shift = <<>>

\* A two-row image was rotated by 0 degrees.
C16_Witness ==
  /\ Rotated
  /\ rot_angle = 0
  /\ Height(rot_image) = 2
  /\ rot_out.format = "PNG"
  /\ rot_out.arr = rot_image.arr

(***************************************************************************)
(* C17  Shape preservation.  For every image, colour or grayscale, and     *)
(* every angle, the array of the result has the shape of the array of the  *)
(* image: height, width and, for a colour image, channel count.            *)
(***************************************************************************)
C17_ShapePreserved ==
  Rotated =>
    /\ array(rot_out).ndim = array(rot_image).ndim
    /\ shape(array(rot_out)) = shape(array(rot_image))

\* A grayscale image of 2 rows and 3 columns was moved by one column.
C17_Witness ==
  /\ Rotated
  /\ array(rot_image).ndim = 2
  /\ shape(array(rot_image)) = <<2, 3>>
  /\ rot_shift = <<1>>
  /\ shape(array(rot_out)) = <<2, 3>>

(***************************************************************************)
(* The files a run has written: the results of the items that succeeded.   *)
(***************************************************************************)
Saved == {k \in 1..Len(results) : results[k].ok}

(***************************************************************************)
(* C18  Output naming: every item processed successfully is written in the *)
(* output directory under the base filename of its input, with nothing     *)
(* added to the name.                                                      *)
(***************************************************************************)
C18_OutputNaming ==
  \A k \in Saved : results[k].saved = <<output_dir, basename(results[k].path)>>

(***************************************************************************)
(* C19  Format round-trip: every item processed successfully is written in *)
(* the format its input was decoded as, also when the extension of the     *)
(* file names another format.                                              *)
(***************************************************************************)
C19_FormatRoundTrip ==
  \A k \in Saved : results[k].format = ImageFormat(results[k].path)

(***************************************************************************)
(* C20  Uniform angle: every item of a run is rotated with the angle that  *)
(* was in effect when the run was started, whatever the user does to the   *)
(* angle control while the batch thread runs.                              *)
(***************************************************************************)
C20_UniformAngle ==
  \A k \in Saved : Format1f(results[k].angle) = run_angle

(***************************************************************************)
(* The editing of the batch on its own: add_files, called from             *)
(* browse_files with any list of paths of EditPaths, and clear_batch, in   *)
(* any order, while no run is on.  The list given to the last add_files    *)
(* call is kept.                                                           *)
(***************************************************************************)
EditFileLists == UNION {[1..n -> EditPaths] : n \in 0..MaxFiles}

\* browse_files: "if files: self.add_files(files)"; with nothing selected
\* it returns.
browse_files(files) ==
  \/ /\ files # <<>>
     /\ add_files(files)
     /\ offered' = files
  \/ /\ files = <<>>
     /\ UiIdle
     /\ UNCHANGED vars

NextEdit ==
  \/ \E files \in EditFileLists : browse_files(files)
  \/ add_next
  \/ add_return
  \/ clear_batch

SpecEdit == Init /\ [][NextEdit]_vars

\* the extensions of the allow-list, without the dot
AllowList == {"jpg", "jpeg", "png", "bmp", "tiff", "tif", "webp"}

\* the extension of a path, in lower case and without its dot
Extension(p) ==
  CASE p.suffix \in {".jpg", ".JPG"} -> "jpg"
    [] p.suffix \in {".png", ".PNG"} -> "png"
    [] p.suffix = ".txt"             -> "txt"
    [] OTHER                         -> "other"

\* there is a file at the path
Exists(p) == FileKind(p) \in {"image", "truncated", "text"}

(***************************************************************************)
(* C21  Deduplicated, allow-listed input set.  After any sequence of       *)
(* add_files and clear_batch calls no two entries of the batch have the    *)
(* same path, and every entry is an existing file whose extension, in      *)
(* lower case, is on the allow-list.                                       *)
(***************************************************************************)
C21_InputSet ==
  /\ \A a, b \in 1..Len(current_batch) :
       current_batch[a] = current_batch[b] => a = b
  /\ \A k \in 1..Len(current_batch) :
       /\ Exists(current_batch[k])
       /\ Extension(current_batch[k]) \in AllowList

\* b.PNG was offered twice in one call; the batch holds it once, after a.jpg.
C21_Witness ==
  /\ UiIdle
  /\ offered = <<FB, FB>>
  /\ current_batch = <<FA, FB>>

\* a path add_files lets in when it is not in the batch
Admissible(p) ==
  FileKind(p) \in {"image", "truncated"} /\ Extension(p) \in AllowList

(***************************************************************************)
(* C25  Rejected additions leave the batch unchanged.  In every iteration  *)
(* of the loop of add_files the entries of the batch stay as they are and  *)
(* in place; a path that is a file with an allowed extension, opens as an  *)
(* image and is not in the batch is appended, once, and any other path     *)
(* leaves the batch as it is; in both cases the loop goes on with the      *)
(* paths that follow, and add_files returns only when it has gone through  *)
(* all of them: the batch grows by one for each path accepted.             *)
(***************************************************************************)
C25_RejectedLeaveBatch ==
  /\ [][ add_next =>
           LET p == Head(add_rest)
               old == current_batch
               new == current_batch'
           IN  /\ SubSeq(new, 1, Len(old)) = old
               /\ IF Admissible(p) /\ p \notin Range(old)
                    THEN new = Append(old, p)
                    ELSE new = old
               /\ add_rest' = Tail(add_rest) ]_vars
  /\ [][ add_return => (add_rest = <<>> /\ UNCHANGED current_batch) ]_vars
  /\ [](UiIdle => add_rest = <<>>)

\* A call has offered a missing file and then t.jpg, and has returned: the
\* batch holds a.jpg and, after it, t.jpg; the missing file is not in it.
C25_Witness ==
  /\ UiIdle
  /\ offered = <<FM, FT>>
  /\ current_batch = <<FA, FT>>

(***************************************************************************)
(* C22  Single active run.  At most one batch thread is running at any     *)
(* time, and the processing flag is true as long as it runs; a call of     *)
(* process_batch while the flag is true starts no thread and leaves the    *)
(* state of the application and of the running thread as it is.  (With an  *)
(* empty batch the call shows the warning box, during which queued         *)
(* callbacks run; otherwise nothing changes at all.)                       *)
(***************************************************************************)
C22_SingleRun ==
  /\ [](threads <= 1)
  /\ []((threads = 1) <=> (pc # "none"))
  /\ [](pc # "none" => processing)
  /\ [][ (processing /\ \E dir \in Directories : process_batch(dir)) =>
           /\ threads' = threads
           /\ UNCHANGED <<current_batch, rotation_angle, processing,
                          progress_maximum>>
           /\ UNCHANGED thread_vars
           /\ UNCHANGED <<posted, results, run_batch, run_angle>>
           /\ ~BatchEmpty(current_batch) => UNCHANGED vars ]_vars

\* The button is enabled again while the processing flag is still true: the
\* ending thread has queued the re-enabling, which has run, and has not yet
\* reset the flag.  process_batch can be called, and returns at the flag.
C22_Witness ==
  /\ threads = 1
  /\ pc = "flag"
  /\ processing
  /\ process_button = "normal"
  /\ current_batch # <<>>

(***************************************************************************)
(* C24  UI-thread confinement: the batch thread makes no Tk call itself;   *)
(* all it does to widgets and Tk variables it queues with root.after.      *)
(***************************************************************************)
C24_UiConfinement == tk_direct = <<>>

(***************************************************************************)
(* Scheduling: the batch thread is a thread of its own, which goes on as   *)
(* long as it has a statement to execute (a Tk call waits for the event    *)
(* loop), the Tk event loop goes on running the callbacks queued, and      *)
(* add_files goes through its list.  The user is under no obligation.      *)
(***************************************************************************)
ThreadStep ==
  \/ thread_start
  \/ thread_except
  \/ thread_for
  \/ thread_status
  \/ thread_progress
  \/ thread_body
  \/ thread_complete
  \/ thread_total
  \/ thread_completed
  \/ thread_showinfo
  \/ thread_finally
  \/ thread_reset
  \/ thread_flag

\* add_files, once called, goes through its list and returns.
AddStep == add_next \/ add_return

\* The inputs under which the end of a run is followed: an angle text that
\* reads as a number and one that does not, so that the run ends after the
\* summary or in the outer handler; the directory dialog answered or
\* cancelled.
TeardownTexts == {"0.0", "abc"}
TeardownDirectories == {DirCancelled, DirGood}

NextTeardown ==
  \/ \E files \in FileLists : on_drop(files)
  \/ add_next
  \/ add_return
  \/ clear_batch
  \/ \E text \in TeardownTexts : set_rotation_angle(text)
  \/ \E dir \in TeardownDirectories : process_batch(dir)
  \/ run_callback
  \/ thread_start
  \/ thread_except
  \/ thread_for
  \/ thread_status
  \/ thread_progress
  \/ thread_body
  \/ thread_complete
  \/ thread_total
  \/ thread_completed
  \/ thread_showinfo
  \/ thread_finally
  \/ thread_reset
  \/ thread_flag

FairSpec ==
  /\ Init
  /\ [][NextTeardown]_vars
  /\ WF_vars(ThreadStep)
  /\ WF_vars(run_callback)
  /\ WF_vars(AddStep)

\* the run has queued the callback that enables the process button
ButtonEnableQueued ==
  \E k \in 1..Len(posted) :
    /\ posted[k].fn = "process_button.config"
    /\ posted[k].state = "normal"

(***************************************************************************)
(* C23  Run teardown.  Every run that is started, whether it ends with the *)
(* summary or through the outer error handler, comes to reset the          *)
(* processing flag, having queued the re-enabling of the process button    *)
(* before; the flag is false whenever no batch thread is alive, the button *)
(* is enabled once the callbacks queued have run, and process_batch, when  *)
(* the event loop calls it with a batch that is not empty, can then start  *)
(* a new run.                                                              *)
(***************************************************************************)
C23_Teardown ==
  /\ [](processing => <>(~processing))
  /\ [](pc = "flag" => ButtonEnableQueued)
  /\ [](pc = "none" => ~processing)
  /\ []((pc = "none" /\ after_queue = <<>>) => process_button = "normal")
  /\ []((pc = "none" /\ UiIdle /\ ~BatchEmpty(current_batch)) =>
          ENABLED (process_batch(DirGood) /\ pc' = "start"))

\* A run that went through the outer error handler has ended: the flag is
\* false again, the button is enabled again and a batch is there to process.
C23_Witness ==
  /\ pc = "none"
  /\ UiIdle
  /\ ~processing
  /\ ~GetDoubleOk(rotation_angle)
  /\ progress_maximum = 1
  /\ process_button = "normal"
  /\ after_queue = <<>>
  /\ current_batch # <<>>

=============================================================================
